---------------------------- MODULE Spec2Model ----------------------------
(***************************************************************************)
(* LinguaBridge voice session coordinator: StateManager (stateManager.js), *)
(* VoiceEngine (lessonEngine.js) and the LinguaBridgeApp glue that drives  *)
(* them.  Every handler is one action; the synchronous calls a handler     *)
(* makes (transition, notifyListeners, the transcript callback, speak, the *)
(* microtask that runs the catch block of speakResponse) are part of it.   *)
(***************************************************************************)
EXTENDS Integers, Sequences, FiniteSets, TLC

VARIABLES
    currentState,         \* StateManager.currentState
    listeners,            \* StateManager.listeners, in registration order
    recognitionAvailable, \* VoiceEngine.recognitionAvailable (recognition # null)
    synthesisAvailable,   \* VoiceEngine.synthesisAvailable
    onTranscriptCallback, \* VoiceEngine.onTranscriptCallback: "none", "app", "other"
    recState,             \* the SpeechRecognition object: inactive/active/stopping/ending
    utterances,           \* the speechSynthesis queue: utterances submitted, not finished
    lastTranscript,       \* VoiceEngine.lastTranscript
    lastTranscriptTime,   \* VoiceEngine.lastTranscriptTime
    now,                  \* Date.now()
    last,                 \* history: the handler that ran last and what it did
    notes,                \* history: observer notifications since the turn started
    turn,                 \* history: how far the current turn followed the normal path
    heard,                \* history: the transcript accepted in the current turn, if any
    tracked,              \* whether notes, turn and heard are being recorded
    retained,             \* history: how lastTranscript got there: initial/accepted/ignored
    seenValidated,        \* history: the observer arguments transition() has produced
    recognitionLang,      \* VoiceEngine.recognitionLang
    synthesisLang,        \* VoiceEngine.synthesisLang
    recognition_lang,     \* recognition.lang, the attribute of the recognition object
    captureLang,          \* the locale the capture in flight was started with
    droppedAt             \* history: when a duplicate of lastTranscript was last dropped
                          \* (0: not since it was retained; -1: not being recorded)

vars == <<currentState, listeners, recognitionAvailable, synthesisAvailable,
          onTranscriptCallback, recState, utterances, lastTranscript,
          lastTranscriptTime, now, last, notes, turn, heard, tracked, retained,
          seenValidated, recognitionLang, synthesisLang, recognition_lang,
          captureLang, droppedAt>>

-----------------------------------------------------------------------------
(* Bounds of the model *)

MaxUtter == 2      \* utterances in the synthesis queue at once
MaxTicks == 5      \* clock ticks explored after start-up
MaxNotes == 5      \* notifications remembered per turn before the log saturates
MaxListeners == 3  \* registered listeners at once

(* Program constants *)

DebounceMs == 2000                 \* lessonEngine.js:479
TickMs     == DebounceMs \div 4    \* clock granularity: 500 ms
Epoch      == 3 * DebounceMs       \* Date.now() at start-up: far more than the window

-----------------------------------------------------------------------------
(* StateManager *)

STATES == {"IDLE", "LISTENING", "PROCESSING", "SPEAKING"}

\* Names that are not phases but are properties every object inherits:
\* StateManager.STATES[name] is a function, hence truthy.
InheritedNames == {"toString"}

\* Names that are no property of STATES at all.
UnknownNames == {"PAUSED"}

Names == STATES \cup InheritedNames \cup UnknownNames

\* !!StateManager.STATES[name]
HasState(name) == name \in STATES \cup InheritedNames

\* a table that lets Speaking go straight back to Listening
TRANSITIONS_Mut ==
    [IDLE       |-> {"LISTENING"},
     LISTENING  |-> {"PROCESSING", "IDLE"},
     PROCESSING |-> {"SPEAKING", "IDLE"},
     SPEAKING   |-> {"IDLE", "LISTENING"}]

TRANSITIONS ==
    [IDLE       |-> {"LISTENING"},
     LISTENING  |-> {"PROCESSING", "IDLE"},
     PROCESSING |-> {"SPEAKING", "IDLE"},
     SPEAKING   |-> {"IDLE"}]

\* What one handler did, beside the program state it leaves.
NoFx == [ret       |-> "none",   \* value returned / promise outcome of the call
         notified  |-> <<>>,     \* <<listener, previous, new>> per observer call
         nseq      |-> <<>>,     \* per observer call: the state-manager call it is for
         caught    |-> 0,        \* listener errors caught by notifyListeners
         errs      |-> 0,        \* invocations of onErrorCallback
         delivered |-> 0,        \* invocations of onTranscriptCallback
         cap       |-> <<>>,     \* calls on the recognition object
         syn       |-> <<>>,     \* calls on speechSynthesis
         sm        |-> <<>>,     \* calls on the state manager, with their outcome
         log       |-> <<>>,     \* the time printed with the log line of each such call
         phaseAtDelivery |-> <<>>, \* the phase at each onTranscriptCallback call
         dropped   |-> FALSE,    \* onresult returned at the duplicate filter
         settled   |-> "none"]   \* a speak promise settled by this handler

\* The program state a handler works on.
Cur == [currentState       |-> currentState,
        recState           |-> recState,
        utterances         |-> utterances,
        lastTranscript     |-> lastTranscript,
        lastTranscriptTime |-> lastTranscriptTime,
        recognitionLang    |-> recognitionLang,
        synthesisLang      |-> synthesisLang,
        recognition_lang   |-> recognition_lang,
        captureLang        |-> captureLang,
        fx                 |-> NoFx]

Ret(s, v) == [s EXCEPT !.fx.ret = v]

RECURSIVE forceTransition(_, _)
RECURSIVE reset(_)
RECURSIVE notifyEach_MutNoCatch(_, _, _, _, _)
RECURSIVE notifyEach(_, _, _, _, _)

\* The callbacks handed to addListener: "ui" is UIEngine's and only redraws;
\* "thrower" throws; "resetter" calls stateManager.reset() from inside its
\* notification when the new phase is Processing.
Callbacks == {"ui", "thrower", "resetter"}

\* One observer call, recorded with n, the position in fx.sm of the call it is for.
Invoke(s, cb, previousState, newState, n) ==
    LET s1 == [s EXCEPT !.fx.notified = Append(@, <<cb, previousState, newState>>),
                        !.fx.nseq = Append(@, n)]
    IN  IF cb = "resetter" /\ newState = "PROCESSING" THEN reset(s1) ELSE s1

\* a forEach without the try/catch: the first throwing listener ends the loop
notifyEach_MutNoCatch(s, cbs, previousState, newState, n) ==
    IF cbs = <<>> THEN s
    ELSE LET s1 == Invoke(s, Head(cbs), previousState, newState, n)
         IN  IF Head(cbs) = "thrower" THEN s1
             ELSE notifyEach_MutNoCatch(s1, Tail(cbs), previousState, newState, n)

\* listeners.forEach(callback => try { callback(previousState, newState) } catch ...)
notifyEach(s, cbs, previousState, newState, n) ==
    IF cbs = <<>> THEN s
    ELSE LET s1 == Invoke(s, Head(cbs), previousState, newState, n)
             s2 == IF Head(cbs) = "thrower"
                   THEN [s1 EXCEPT !.fx.caught = @ + 1] ELSE s1
         IN  notifyEach(s2, Tail(cbs), previousState, newState, n)

Reverse(q) == [i \in 1..Len(q) |-> q[Len(q) + 1 - i]]

\* notification of the most recently registered listener first
notifyListeners_MutReverse(s, previousState, newState) ==
    notifyEach(s, Reverse(listeners), previousState, newState, Len(s.fx.sm))

\* notifyListeners: every registered callback, in order, with the same pair.
notifyListeners(s, previousState, newState) ==
    notifyEach(s, listeners, previousState, newState, Len(s.fx.sm))

\* StateManager.log prefixes each line with new Date().toLocaleTimeString(), the
\* wall clock to the second; it is all that is recorded with a transition.
LogTime == now \div 1000

\* The record of one call on the state manager.
Validated(s, newState, ok) ==
    [s EXCEPT !.fx.sm = Append(@, [call |-> "transition", from |-> s.currentState,
                                   to |-> newState, ok |-> ok]),
              !.fx.log = Append(@, LogTime)]

Forced(s, newState, ok) ==
    [s EXCEPT !.fx.sm = Append(@, [call |-> "forceTransition",
                                   from |-> s.currentState,
                                   to |-> newState, ok |-> ok]),
              !.fx.log = Append(@, LogTime)]

\* transition that assigns the phase before it checks the edge
transition_Mut(s, newState) ==
    IF ~HasState(newState) THEN Ret(Validated(s, newState, FALSE), "false")
    ELSE IF s.currentState \notin DOMAIN TRANSITIONS
    THEN Ret(Validated(s, newState, FALSE), "throw")
    ELSE IF newState \notin TRANSITIONS[s.currentState]
    THEN Ret(Validated([s EXCEPT !.currentState = newState], newState, FALSE),
             "false")
    ELSE Ret(notifyListeners([Validated(s, newState, TRUE)
                                 EXCEPT !.currentState = newState],
                             s.currentState, newState), "true")

\* transition(newState): "true", "false", or "throw" when TRANSITIONS[currentState]
\* is not an array (currentState is an inherited property name).
transition(s, newState) ==
    IF ~HasState(newState) THEN Ret(Validated(s, newState, FALSE), "false")
    ELSE IF s.currentState \notin DOMAIN TRANSITIONS
    THEN Ret(Validated(s, newState, FALSE), "throw")
    ELSE IF newState \notin TRANSITIONS[s.currentState]
    THEN Ret(Validated(s, newState, FALSE), "false")
    ELSE Ret(notifyListeners([Validated(s, newState, TRUE)
                                 EXCEPT !.currentState = newState],
                             s.currentState, newState), "true")

forceTransition(s, newState) ==
    IF ~HasState(newState) THEN Ret(Forced(s, newState, FALSE), "undefined")
    ELSE Ret(notifyListeners([Forced(s, newState, TRUE)
                                 EXCEPT !.currentState = newState],
                             s.currentState, newState), "undefined")

\* reset that asks for Idle through the transition table
reset_Mut(s) == transition(s, "IDLE")

reset(s) == forceTransition(s, "IDLE")

\* addListener(callback): anything that is not a function is ignored.
addListener(ls, callback) ==
    IF callback \in Callbacks THEN Append(ls, callback) ELSE ls

\* removeListener that takes out the first occurrence only
removeListener_Mut(ls, callback) ==
    IF \E i \in 1..Len(ls) : ls[i] = callback
    THEN LET i == CHOOSE j \in 1..Len(ls) :
                      ls[j] = callback /\ \A k \in 1..(j - 1) : ls[k] # callback
         IN  SubSeq(ls, 1, i - 1) \o SubSeq(ls, i + 1, Len(ls))
    ELSE ls

\* removeListener(callback): listeners.filter(cb => cb !== callback)
removeListener(ls, callback) == SelectSeq(ls, LAMBDA cb : cb # callback)

-----------------------------------------------------------------------------
(* The browser capabilities VoiceEngine drives *)

\* Transcripts are sequences of characters, so that trim() is computed.
Hola  == <<"h", "o", "l", "a">>
Adios == <<"a", "d", "i", "o", "s">>
RawTranscripts == {Hola, <<" ">> \o Hola \o <<" ">>, Adios}

RECURSIVE trimStart(_)
trimStart(t) == IF t # <<>> /\ Head(t) = " " THEN trimStart(Tail(t)) ELSE t

RECURSIVE trimEnd(_)
trimEnd(t) ==
    IF t # <<>> /\ t[Len(t)] = " " THEN trimEnd(SubSeq(t, 1, Len(t) - 1)) ELSE t

\* String.prototype.trim
trim(t) == trimEnd(trimStart(t))

\* recognition.start(): throws InvalidStateError unless the object is inactive;
\* the capture runs with the value recognition.lang has at this moment.
recStart(s) ==
    IF s.recState = "inactive"
    THEN [s EXCEPT !.recState = "active", !.captureLang = s.recognition_lang,
                   !.fx.cap = Append(@, "start")]
    ELSE [s EXCEPT !.fx.cap = Append(@, "startThrew")]

\* recognition.stop(): a request; the object stays started until its end event.
recStop(s) ==
    [s EXCEPT !.recState = IF @ = "active" THEN "stopping" ELSE @,
              !.fx.cap = Append(@, "stop")]

\* speechSynthesis.speaking
synSpeaking(s) ==
    \E i \in 1..Len(s.utterances) : s.utterances[i].status = "speaking"

\* speechSynthesis.cancel(): every queued utterance is removed; each still gets its
\* final event (end or error, depending on the browser) in a later task.
synCancel(s) ==
    LET q == s.utterances
    IN  [s EXCEPT !.utterances =
                      [i \in 1..Len(q) |-> [q[i] EXCEPT !.status = "cancelled"]],
                  !.fx.syn = Append(@, "cancel")]

\* speechSynthesis.speak(utterance); owner is who holds the promise of this speak.
\* utterance.lang is lang || synthesisLang, and speak is called without lang.
synSpeak(s, owner) ==
    [s EXCEPT !.utterances = Append(@, [owner |-> owner, status |-> "pending",
                                        stale |-> FALSE, lang |-> s.synthesisLang]),
              !.fx.syn = Append(@, "speak")]

\* Capture is active from a successful start() until the end event.
CaptureActive == recState # "inactive"

\* Rendering is active while a submitted utterance has not had its final event.
RenderingActive == utterances # <<>>

-----------------------------------------------------------------------------
(* VoiceEngine *)

onErrorCallback(s) == [s EXCEPT !.fx.errs = @ + 1]

\* onend that resets the session whatever the phase, as onerror does
recognition_onend_Mut(s) ==
    reset([s EXCEPT !.recState = "inactive"])

\* recognition.onend that requests Idle without looking at the phase
recognition_onend_MutUnguarded(s) ==
    transition([s EXCEPT !.recState = "inactive"], "IDLE")

\* recognition.onend that starts the capture again while the phase is Listening
recognition_onend_MutRestart(s) ==
    LET s1 == [s EXCEPT !.recState = "inactive"]
    IN  IF s1.currentState = "LISTENING" THEN recStart(s1) ELSE s1

recognition_onend(s) ==
    LET s1 == [s EXCEPT !.recState = "inactive"]
    IN  IF s1.currentState = "LISTENING" THEN transition(s1, "IDLE") ELSE s1

\* speak with a precondition that lets Listening through
speak_Mut(s, owner) ==
    IF s.currentState \notin {"PROCESSING", "LISTENING"}
    THEN Ret(s, "rejected")
    ELSE IF ~synthesisAvailable
    THEN Ret(s, "rejected")
    ELSE LET s1 == IF synSpeaking(s) THEN synCancel(s) ELSE s
             s2 == IF recognitionAvailable THEN recStop(s1) ELSE s1
             s3 == transition(s2, "SPEAKING")
         IN  IF s3.fx.ret # "true"
             THEN Ret(s3, "rejected")
             ELSE Ret(synSpeak(s3, owner), "pending")

\* speak(text, lang): the promise executor runs synchronously.  ret is "rejected"
\* or "pending" (settled later by utterance.onend / utterance.onerror).
speak(s, owner) ==
    IF s.currentState # "PROCESSING"
    THEN Ret(s, "rejected")
    ELSE IF ~synthesisAvailable
    THEN Ret(s, "rejected")
    ELSE LET s1 == IF synSpeaking(s) THEN synCancel(s) ELSE s
             s2 == IF recognitionAvailable THEN recStop(s1) ELSE s1
             s3 == transition(s2, "SPEAKING")
         IN  IF s3.fx.ret # "true"
             THEN Ret(s3, "rejected")
             ELSE Ret(synSpeak(s3, owner), "pending")

\* LinguaBridgeApp.speakResponse: await speak(text); the catch block runs in the
\* microtask that follows the rejection, before any other event is handled.
speakResponse(s) ==
    LET r == speak(s, "app")
    IN  IF r.fx.ret = "rejected" THEN Ret(reset(r), "rejected") ELSE r

\* LinguaBridgeApp.handleTranscript: analysis and chat output, then speakResponse.
handleTranscript(s) == speakResponse(s)

\* The registered transcript callback, if any.
deliverTranscript(s) ==
    IF onTranscriptCallback = "none" THEN s
    ELSE LET s1 == [s EXCEPT !.fx.delivered = @ + 1,
                             !.fx.phaseAtDelivery = Append(@, s.currentState)]
         IN  IF onTranscriptCallback = "app" THEN handleTranscript(s1) ELSE s1

\* onresult with an inclusive debounce window
recognition_onresult_MutWindow(s, raw) ==
    LET transcript == trim(raw)
    IN  IF transcript = s.lastTranscript /\ (now - s.lastTranscriptTime) <= DebounceMs
        THEN [s EXCEPT !.fx.dropped = TRUE]
        ELSE LET s1 == [s EXCEPT !.lastTranscript = transcript,
                                 !.lastTranscriptTime = now]
             IN  IF s1.currentState = "LISTENING"
                 THEN deliverTranscript(transition(s1, "PROCESSING"))
                 ELSE s1

\* onresult that calls the transcript callback before it leaves Listening
recognition_onresult_MutOrder(s, raw) ==
    LET transcript == trim(raw)
    IN  IF transcript = s.lastTranscript /\ (now - s.lastTranscriptTime) < DebounceMs
        THEN [s EXCEPT !.fx.dropped = TRUE]
        ELSE LET s1 == [s EXCEPT !.lastTranscript = transcript,
                                 !.lastTranscriptTime = now]
             IN  IF s1.currentState = "LISTENING"
                 THEN transition(deliverTranscript(s1), "PROCESSING")
                 ELSE s1

\* onresult that recovers from a duplicate by resetting the session
recognition_onresult_MutDrop(s, raw) ==
    LET transcript == trim(raw)
    IN  IF transcript = s.lastTranscript /\ (now - s.lastTranscriptTime) < DebounceMs
        THEN [reset(s) EXCEPT !.fx.dropped = TRUE]
        ELSE LET s1 == [s EXCEPT !.lastTranscript = transcript,
                                 !.lastTranscriptTime = now]
             IN  IF s1.currentState = "LISTENING"
                 THEN deliverTranscript(transition(s1, "PROCESSING"))
                 ELSE s1

\* onresult whose dropped duplicates restart the debounce window
recognition_onresult_MutRefresh(s, raw) ==
    LET transcript == trim(raw)
    IN  IF transcript = s.lastTranscript /\ (now - s.lastTranscriptTime) < DebounceMs
        THEN [s EXCEPT !.fx.dropped = TRUE, !.lastTranscriptTime = now]
        ELSE LET s1 == [s EXCEPT !.lastTranscript = transcript,
                                 !.lastTranscriptTime = now]
             IN  IF s1.currentState = "LISTENING"
                 THEN deliverTranscript(transition(s1, "PROCESSING"))
                 ELSE s1

\* onresult that hands every retained transcript to the callback, whatever the phase
recognition_onresult_MutAnyPhase(s, raw) ==
    LET transcript == trim(raw)
    IN  IF transcript = s.lastTranscript /\ (now - s.lastTranscriptTime) < DebounceMs
        THEN [s EXCEPT !.fx.dropped = TRUE]
        ELSE LET s1 == [s EXCEPT !.lastTranscript = transcript,
                                 !.lastTranscriptTime = now]
             IN  deliverTranscript(transition(s1, "PROCESSING"))

recognition_onresult(s, raw) ==
    LET transcript == trim(raw)
    IN  IF transcript = s.lastTranscript /\ (now - s.lastTranscriptTime) < DebounceMs
        THEN [s EXCEPT !.fx.dropped = TRUE]
        ELSE LET s1 == [s EXCEPT !.lastTranscript = transcript,
                                 !.lastTranscriptTime = now]
             IN  IF s1.currentState = "LISTENING"
                 THEN deliverTranscript(transition(s1, "PROCESSING"))
                 ELSE s1

ErrorKinds == {"no-speech", "audio-capture", "not-allowed", "network"}

\* recognition.onerror that surfaces every class of error
recognition_onerror_MutSurface(s, kind) ==
    reset(onErrorCallback([s EXCEPT !.recState = "ending"]))

\* recognition.onerror that returns to Idle by a validated transition
recognition_onerror_MutValidated(s, kind) ==
    LET s0 == [s EXCEPT !.recState = "ending"]
        s1 == IF kind \in {"audio-capture", "not-allowed"}
              THEN onErrorCallback(s0) ELSE s0
    IN  transition(s1, "IDLE")

\* recognition.onerror; the recognition object ends right after an error.
recognition_onerror(s, kind) ==
    LET s0 == [s EXCEPT !.recState = "ending"]
        s1 == IF kind \in {"audio-capture", "not-allowed"}
              THEN onErrorCallback(s0) ELSE s0
    IN  reset(s1)

\* startListening that reports the failed precondition through the error callback
startListening_Mut(s) ==
    IF s.currentState # "IDLE" THEN Ret(onErrorCallback(s), "false")
    ELSE IF ~recognitionAvailable THEN Ret(onErrorCallback(s), "false")
    ELSE LET s1 == transition(s, "LISTENING")
         IN  IF s1.fx.ret # "true" THEN Ret(s1, "false")
             ELSE LET s2 == recStart([s1 EXCEPT !.recognition_lang =
                                                    s1.recognitionLang])
                  IN  IF s2.recState = s1.recState
                      THEN Ret(reset(s2), "false")
                      ELSE Ret(s2, "true")

\* startListening whose catch block only returns false
startListening_MutNoReset(s) ==
    IF s.currentState # "IDLE" THEN Ret(s, "false")
    ELSE IF ~recognitionAvailable THEN Ret(onErrorCallback(s), "false")
    ELSE LET s1 == transition(s, "LISTENING")
         IN  IF s1.fx.ret # "true" THEN Ret(s1, "false")
             ELSE LET s2 == recStart([s1 EXCEPT !.recognition_lang =
                                                    s1.recognitionLang])
                  IN  IF s2.recState = s1.recState
                      THEN Ret(s2, "false")
                      ELSE Ret(s2, "true")

startListening(s) ==
    IF s.currentState # "IDLE" THEN Ret(s, "false")
    ELSE IF ~recognitionAvailable THEN Ret(onErrorCallback(s), "false")
    ELSE LET s1 == transition(s, "LISTENING")
         IN  IF s1.fx.ret # "true" THEN Ret(s1, "false")
             ELSE LET s2 == recStart([s1 EXCEPT !.recognition_lang =
                                                    s1.recognitionLang])
                  IN  IF s2.recState = s1.recState   \* start() threw
                      THEN Ret(reset(s2), "false")
                      ELSE Ret(s2, "true")

\* stopListening that also returns the session to Idle
stopListening_Mut(s) ==
    IF recognitionAvailable /\ s.currentState = "LISTENING"
    THEN transition(recStop(s), "IDLE") ELSE s

stopListening(s) ==
    IF recognitionAvailable /\ s.currentState = "LISTENING" THEN recStop(s) ELSE s

\* cancelSpeech: this.synthesis is undefined when the browser has no
\* speechSynthesis, and reading .speaking of it throws a TypeError.
cancelSpeech(s) ==
    IF ~synthesisAvailable THEN Ret(s, "throw")
    ELSE IF synSpeaking(s) THEN synCancel(s) ELSE s

\* The locales of the language selectors (LinguaBridgeApp.languageCodes).
Locales == {"es-ES", "de-DE"}

\* setRecognitionLanguage that re-tunes the capture in flight
setRecognitionLanguage_Mut(s, langCode) ==
    LET s1 == [s EXCEPT !.recognitionLang = langCode]
    IN  IF recognitionAvailable
        THEN [s1 EXCEPT !.recognition_lang = langCode,
                        !.captureLang = IF s.recState = "inactive" THEN @
                                        ELSE langCode]
        ELSE s1

setRecognitionLanguage(s, langCode) ==
    LET s1 == [s EXCEPT !.recognitionLang = langCode]
    IN  IF recognitionAvailable
        THEN [s1 EXCEPT !.recognition_lang = langCode]
        ELSE s1

setSynthesisLanguage(s, langCode) == [s EXCEPT !.synthesisLang = langCode]

RemoveAt(q, i) == SubSeq(q, 1, i - 1) \o SubSeq(q, i + 1, Len(q))

\* utterance.onend of the i-th queued utterance
utterance_onend(s, i) ==
    LET s1 == transition([s EXCEPT !.utterances = RemoveAt(@, i)], "IDLE")
    IN  [s1 EXCEPT !.fx.ret = "none", !.fx.settled = "resolved"]

\* utterance.onerror of the i-th queued utterance; the rejection reaches the catch
\* block of speakResponse when the app holds the promise.
utterance_onerror(s, i) ==
    LET s1 == reset([s EXCEPT !.utterances = RemoveAt(@, i)])
        s2 == IF s.utterances[i].owner = "app" THEN reset(s1) ELSE s1
    IN  [s2 EXCEPT !.fx.ret = "none", !.fx.settled = "rejected"]

\* switchLesson that forces its way into Processing
switchLesson_Mut(s, known) ==
    IF s.currentState # "IDLE" THEN s
    ELSE IF ~known THEN s
    ELSE Ret(speakResponse(forceTransition(s, "PROCESSING")), "none")

\* LinguaBridgeApp.switchLesson; known: lessonEngine.switchLesson(lessonKey) succeeded
switchLesson(s, known) ==
    IF s.currentState # "IDLE" THEN s
    ELSE IF ~known THEN s
    ELSE Ret(speakResponse(transition(s, "PROCESSING")), "none")

-----------------------------------------------------------------------------
(* History variables *)

Overflow == <<"overflow">>

\* The notifications of the current turn: a successful startListening opens a turn.
NextNotes(op, r) ==
    IF op = "startListening" /\ r.fx.ret = "true"
    THEN r.fx.notified
    ELSE IF notes = Overflow \/ Len(notes) + Len(r.fx.notified) > MaxNotes
    THEN Overflow
    ELSE notes \o r.fx.notified

\* The normal turn: startListening from Idle with nothing left in flight, one
\* accepted transcript handed to the app's callback, which speaks; rendering
\* completes.  Transcripts that are filtered or ignored, the capture end after the
\* transcript, the utterance start and the clock keep the turn normal; any other
\* handler leaves the normal path.
NextTurn(op, r) ==
    CASE op = "startListening" ->
            IF r.fx.ret = "true" /\ utterances = <<>> THEN "listening" ELSE "off"
      [] op = "onresult" ->
            IF r.fx.dropped \/ currentState # "LISTENING" THEN turn
            ELSE IF turn = "listening" /\ onTranscriptCallback = "app"
                    /\ r.fx.syn = <<"speak">>
            THEN "speaking" ELSE "off"
      [] op = "recognition.onend" ->
            IF turn \in {"speaking", "done"} THEN turn ELSE "off"
      [] op = "utterance.onend" ->
            IF turn = "speaking" THEN "done" ELSE "off"
      [] op \in {"utterance.onstart", "tick"} -> turn
      [] OTHER -> "off"

\* Whether the current turn accepted a transcript ("accepted") and handed it to the
\* transcript callback ("delivered").
NextHeard(op, r) ==
    IF op = "startListening" /\ r.fx.ret = "true" THEN "no"
    ELSE IF op = "onresult" /\ ~r.fx.dropped /\ currentState = "LISTENING"
    THEN (IF r.fx.delivered > 0 THEN "delivered" ELSE "accepted")
    ELSE heard

\* How the retained transcript got there: "accepted" when onresult stored it and
\* went on to process it (the phase was Listening), "ignored" when it stored it and
\* did nothing more.
NextRetained(op, r) ==
    IF op = "onresult" /\ ~r.fx.dropped
    THEN (IF currentState = "LISTENING" THEN "accepted" ELSE "ignored")
    ELSE retained

\* When a duplicate of the retained transcript was last dropped (0: never since it
\* was retained).
NextDroppedAt(op, r) ==
    IF droppedAt < 0 \/ op # "onresult" THEN droppedAt
    ELSE IF r.fx.dropped THEN now
    ELSE IF r.lastTranscript # lastTranscript THEN 0
    ELSE droppedAt

\* A successful startListening opens a turn: what is still in the synthesis queue
\* belongs to an earlier turn from then on.
MarkStale(op, r) ==
    IF op = "startListening" /\ r.fx.ret = "true"
    THEN [i \in 1..Len(r.utterances) |-> [r.utterances[i] EXCEPT !.stale = TRUE]]
    ELSE r.utterances

\* A handler ran: op with argument arg took the program from Cur to r.
Apply(op, arg, r) ==
    /\ currentState' = r.currentState
    /\ recState' = r.recState
    /\ utterances' = MarkStale(op, r)
    /\ retained' = NextRetained(op, r)
    /\ droppedAt' = NextDroppedAt(op, r)
    /\ lastTranscript' = r.lastTranscript
    /\ lastTranscriptTime' = r.lastTranscriptTime
    /\ recognitionLang' = r.recognitionLang
    /\ synthesisLang' = r.synthesisLang
    /\ recognition_lang' = r.recognition_lang
    /\ captureLang' = r.captureLang
    /\ last' = [op |-> op, arg |-> arg, pre |-> currentState, fx |-> r.fx]
    /\ UNCHANGED <<listeners, recognitionAvailable, synthesisAvailable,
                   onTranscriptCallback, now, tracked>>

Commit(op, arg, r) ==
    /\ Apply(op, arg, r)
    /\ UNCHANGED seenValidated
    /\ notes' = IF tracked THEN NextNotes(op, r) ELSE notes
    /\ turn' = IF tracked THEN NextTurn(op, r) ELSE turn
    /\ heard' = IF tracked THEN NextHeard(op, r) ELSE heard

-----------------------------------------------------------------------------
(* Initial state: the application has been constructed *)

InitProgram ==
    /\ currentState = "IDLE"
    /\ listeners = <<"ui">>
    /\ recognitionAvailable \in BOOLEAN
    /\ synthesisAvailable \in BOOLEAN
    /\ onTranscriptCallback \in {"none", "app", "other"}
    /\ recState = "inactive"
    /\ utterances = <<>>
    /\ lastTranscript = <<>>
    /\ lastTranscriptTime = 0
    /\ now = Epoch
    /\ last = [op |-> "init", arg |-> "", pre |-> "IDLE", fx |-> NoFx]
    /\ notes = <<>>
    /\ turn = "off"
    /\ heard = "no"
    /\ retained = "initial"
    /\ seenValidated = {}
    /\ recognitionLang = "es-ES"
    /\ synthesisLang = "es-ES"
    /\ recognition_lang = IF recognitionAvailable THEN "es-ES" ELSE "none"
    /\ captureLang = "none"

Init == InitProgram /\ tracked = TRUE /\ droppedAt = -1

-----------------------------------------------------------------------------
(* Commands of the presentation layer *)

StartListening == Commit("startListening", "", startListening(Cur))

StopListening == Commit("stopListening", "", stopListening(Cur))

\* VoiceEngine.speak called by some caller that keeps the promise to itself.
Speak ==
    /\ Len(utterances) < MaxUtter
    /\ Commit("speak", "", speak(Cur, "direct"))

CancelSpeech == Commit("cancelSpeech", "", cancelSpeech(Cur))

Reset == Commit("reset", "", reset(Cur))

SwitchLesson ==
    \E known \in BOOLEAN :
        /\ Len(utterances) < MaxUtter
        /\ Commit("switchLesson", IF known THEN "known" ELSE "unknown",
                  switchLesson(Cur, known))

(* Events of the capture capability *)

OnResult ==
    \E raw \in RawTranscripts :
        /\ recState \in {"active", "stopping"}
        /\ Len(utterances) < MaxUtter
        /\ Commit("onresult", raw, recognition_onresult(Cur, raw))

OnError ==
    \E kind \in ErrorKinds :
        /\ recState \in {"active", "stopping"}
        /\ Commit("recognition.onerror", kind, recognition_onerror(Cur, kind))

OnEnd ==
    /\ recState # "inactive"
    /\ Commit("recognition.onend", "", recognition_onend(Cur))

(* Events of the rendering capability *)

UtteranceStart ==
    \E i \in 1..Len(utterances) :
        /\ utterances[i].status = "pending"
        /\ ~synSpeaking(Cur)
        /\ Commit("utterance.onstart", "",
                  [Cur EXCEPT !.utterances[i].status = "speaking"])

UtteranceEnd ==
    \E i \in 1..Len(utterances) :
        /\ utterances[i].status \in {"speaking", "cancelled"}
        /\ Commit("utterance.onend", utterances[i], utterance_onend(Cur, i))

UtteranceError ==
    \E i \in 1..Len(utterances) :
        Commit("utterance.onerror", utterances[i], utterance_onerror(Cur, i))

(* The clock *)

Tick ==
    /\ now < Epoch + MaxTicks * TickMs
    /\ now' = now + TickMs
    /\ last' = [op |-> "tick", arg |-> "", pre |-> currentState, fx |-> NoFx]
    /\ UNCHANGED <<currentState, listeners, recognitionAvailable, synthesisAvailable,
                   onTranscriptCallback, recState, utterances, lastTranscript,
                   lastTranscriptTime, notes, turn, heard, tracked, retained,
                   seenValidated, recognitionLang, synthesisLang, recognition_lang,
                   captureLang, droppedAt>>

Next ==
    \/ StartListening
    \/ StopListening
    \/ Speak
    \/ CancelSpeech
    \/ Reset
    \/ SwitchLesson
    \/ OnResult
    \/ OnError
    \/ OnEnd
    \/ UtteranceStart
    \/ UtteranceEnd
    \/ UtteranceError

Spec == Init /\ [][Next]_vars

\* The same program with the clock running, for the claims about the debounce
\* window; the per-turn histories are not recorded.
InitClock == InitProgram /\ tracked = FALSE /\ droppedAt = -1

NextClock == Next \/ Tick

SpecClock == InitClock /\ [][NextClock]_vars

\* One listener's turns with the clock running and the time of the last dropped
\* duplicate recorded, for the claims that relate two transcripts in time.
InitDebounce == InitProgram /\ tracked = FALSE /\ droppedAt = 0

NextDebounce ==
    \/ StartListening
    \/ StopListening
    \/ OnResult
    \/ OnEnd
    \/ UtteranceStart
    \/ UtteranceEnd
    \/ Tick

SpecDebounce == InitDebounce /\ [][NextDebounce]_vars

-----------------------------------------------------------------------------
(* The state machine on its own: transition and forceTransition called with any name *)

\* The arguments the observers were called with by a handler.
Arguments(r) == {r.fx.notified[i] : i \in 1..Len(r.fx.notified)}

SMTransition ==
    \E target \in Names :
        /\ Apply("transition", target, transition(Cur, target))
        /\ seenValidated' = seenValidated \cup Arguments(transition(Cur, target))
        /\ UNCHANGED <<notes, turn, heard>>

SMForceTransition ==
    \E target \in Names :
        /\ Apply("forceTransition", target, forceTransition(Cur, target))
        /\ UNCHANGED <<notes, turn, heard, seenValidated>>

NextSM == SMTransition \/ SMForceTransition

SpecSM == Init /\ [][NextSM]_vars

-----------------------------------------------------------------------------
(* The session with the language selectors in use *)

SetRecognitionLanguage ==
    \E langCode \in Locales :
        Commit("setRecognitionLanguage", langCode,
               setRecognitionLanguage(Cur, langCode))

SetSynthesisLanguage ==
    \E langCode \in Locales :
        Commit("setSynthesisLanguage", langCode, setSynthesisLanguage(Cur, langCode))

NextLang ==
    \/ SetRecognitionLanguage
    \/ SetSynthesisLanguage
    \/ StartListening
    \/ StopListening
    \/ OnResult
    \/ OnEnd
    \/ UtteranceStart
    \/ UtteranceEnd

SpecLang == InitClock /\ [][NextLang]_vars

-----------------------------------------------------------------------------
(* The turn-taking session with capabilities that always finish what they began *)

\* What the microphone button and the two capabilities can do to a session.
NextTurns ==
    \/ StartListening
    \/ StopListening
    \/ OnResult
    \/ OnError
    \/ OnEnd
    \/ UtteranceStart
    \/ UtteranceEnd
    \/ UtteranceError

\* Every started capture gets its end event; every submitted utterance is started
\* when the queue reaches it and then gets its final event (end or error).
CapabilitiesFinish ==
    /\ WF_vars(OnEnd)
    /\ WF_vars(UtteranceStart)
    /\ WF_vars(UtteranceEnd \/ UtteranceError)

SpecTurns == InitClock /\ [][NextTurns]_vars /\ CapabilitiesFinish

-----------------------------------------------------------------------------
(* The state machine and its observers: listeners come and go between calls *)

\* What addListener / removeListener may be called with.
ListenerArgs == Callbacks \cup {"notAFunction"}

\* A call that only rewrites the listener list.
Relist(op, arg, ls) ==
    /\ listeners' = ls
    /\ last' = [op |-> op, arg |-> arg, pre |-> currentState, fx |-> NoFx]
    /\ UNCHANGED <<currentState, recognitionAvailable, synthesisAvailable,
                   onTranscriptCallback, recState, utterances, lastTranscript,
                   lastTranscriptTime, now, notes, turn, heard, tracked, retained,
                   seenValidated, recognitionLang, synthesisLang, recognition_lang,
                   captureLang, droppedAt>>

AddListener ==
    \E callback \in ListenerArgs :
        /\ Len(listeners) < MaxListeners
        /\ Relist("addListener", callback, addListener(listeners, callback))

RemoveListener ==
    \E callback \in ListenerArgs :
        Relist("removeListener", callback, removeListener(listeners, callback))

ObsTransition ==
    \E target \in STATES :
        /\ Apply("transition", target, transition(Cur, target))
        /\ UNCHANGED <<notes, turn, heard, seenValidated>>

ObsForceTransition ==
    \E target \in STATES :
        /\ Apply("forceTransition", target, forceTransition(Cur, target))
        /\ UNCHANGED <<notes, turn, heard, seenValidated>>

ObsReset ==
    /\ Apply("reset", "", reset(Cur))
    /\ UNCHANGED <<notes, turn, heard, seenValidated>>

NextObs ==
    \/ AddListener
    \/ RemoveListener
    \/ ObsTransition
    \/ ObsForceTransition
    \/ ObsReset

SpecObs == Init /\ [][NextObs]_vars

-----------------------------------------------------------------------------
(* Properties *)

Called(calls, c) == \E i \in 1..Len(calls) : calls[i] = c

\* The transition table as the specification states it.
StatedTable ==
    [IDLE       |-> {"LISTENING"},
     LISTENING  |-> {"PROCESSING", "IDLE"},
     PROCESSING |-> {"SPEAKING", "IDLE"},
     SPEAKING   |-> {"IDLE"}]

\* C1: capture (recognition started and not yet ended) and rendering (utterance
\* submitted and not yet finished) are never both active.
C1_MutualExclusion == ~(CaptureActive /\ RenderingActive)

\* C2: for every phase P and target phase T, transition(T) returns true and sets
\* the phase to T if and only if T is in the table entry of P.
C2_TransitionIffInTable ==
    (last.op = "transition" /\ last.pre \in STATES /\ last.arg \in STATES)
        => ((last.fx.ret = "true" /\ currentState = last.arg)
                <=> last.arg \in StatedTable[last.pre])

C2_Witness ==
    /\ last.op = "transition"
    /\ last.pre = "PROCESSING"
    /\ last.arg = "SPEAKING"
    /\ last.fx.ret = "true"
    /\ currentState = "SPEAKING"

\* C3: a rejected transition (the target is not a defined phase, or the edge is not
\* in the table) returns false, leaves the phase unchanged and invokes no observer.
C3_RejectedTransition ==
    (/\ last.op = "transition"
     /\ last.pre \in STATES
     /\ (last.arg \notin STATES \/ last.arg \notin StatedTable[last.pre]))
        => (/\ last.fx.ret = "false"
            /\ currentState = last.pre
            /\ last.fx.notified = <<>>)

C3_Witness ==
    /\ last.op = "transition"
    /\ last.pre = "SPEAKING"
    /\ last.arg = "LISTENING"
    /\ last.fx.ret = "false"

\* C4: speak invoked while the phase is Idle, Listening or Speaking is rejected and
\* has no side effect: phase, capture and the synthesis queue are unchanged, no
\* observer is notified, capture is not stopped, nothing is cancelled or rendered.
C4_SpeakRejectedOutsideProcessing ==
    [][(last'.op = "speak" /\ currentState \in {"IDLE", "LISTENING", "SPEAKING"})
        => (/\ last'.fx.ret = "rejected"
            /\ currentState' = currentState
            /\ recState' = recState
            /\ utterances' = utterances
            /\ last'.fx.notified = <<>>
            /\ last'.fx.cap = <<>>
            /\ last'.fx.syn = <<>>)]_vars

C4_Witness ==
    /\ last.op = "speak"
    /\ last.pre = "LISTENING"
    /\ last.fx.ret = "rejected"
    /\ synthesisAvailable
    /\ recState = "active"

\* C5: startListening invoked while the phase is Listening, Processing or Speaking
\* returns false, leaves the phase unchanged, notifies no observer, invokes no
\* callback and does not start capture.
C5_StartListeningRejectedOutsideIdle ==
    [][(last'.op = "startListening"
            /\ currentState \in {"LISTENING", "PROCESSING", "SPEAKING"})
        => (/\ last'.fx.ret = "false"
            /\ currentState' = currentState
            /\ recState' = recState
            /\ utterances' = utterances
            /\ last'.fx.notified = <<>>
            /\ last'.fx.errs = 0
            /\ last'.fx.delivered = 0
            /\ last'.fx.cap = <<>>)]_vars

C5_Witness ==
    /\ last.op = "startListening"
    /\ last.pre = "SPEAKING"
    /\ last.fx.ret = "false"
    /\ recState = "inactive"

\* C6: in the normal turn the observer receives exactly four notifications, in the
\* order (Idle, Listening), (Listening, Processing), (Processing, Speaking),
\* (Speaking, Idle), and the final phase is Idle.
C6_NormalTurnNotifications ==
    turn = "done"
        => (/\ notes = << <<"ui", "IDLE", "LISTENING">>,
                          <<"ui", "LISTENING", "PROCESSING">>,
                          <<"ui", "PROCESSING", "SPEAKING">>,
                          <<"ui", "SPEAKING", "IDLE">> >>
            /\ currentState = "IDLE")

C6_Witness == turn = "done" /\ recState = "inactive" /\ last.op = "recognition.onend"

\* C7: whenever speak invokes the rendering capability, capture has been fully
\* stopped: its end has been observed, not merely requested.
\* The calls are made in the order cancel, stop, transition, render.
C7_CaptureEndedBeforeRendering ==
    Called(last.fx.syn, "speak")
        => (/\ recState = "inactive"
            /\ last.fx.syn \in {<<"speak">>, <<"cancel", "speak">>}
            /\ last.fx.cap = <<"stop">>
            /\ currentState = "SPEAKING")

\* C8 as stated: every invocation of the rendering capability is preceded, in the
\* same turn, by the acceptance and the delivery of a transcript.
C8_RenderingAfterDelivery ==
    Called(last.fx.syn, "speak") => heard = "delivered"

\* C8 amended: every invocation of the rendering capability is preceded, in the
\* same turn, by the acceptance of a transcript, which was delivered to the
\* transcript callback whenever one is registered.
C8_RenderingAfterAcceptance ==
    Called(last.fx.syn, "speak")
        => (/\ heard \in {"accepted", "delivered"}
            /\ (onTranscriptCallback # "none" => heard = "delivered"))

C8_Witness ==
    /\ last.op = "speak"
    /\ Called(last.fx.syn, "speak")
    /\ heard = "delivered"

\* C9: a transcript is dropped by the duplicate filter if and only if its trimmed
\* text equals the retained transcript and it is observed less than 2000 ms after
\* it (dropped at a gap of 1500 ms, accepted at 2000 ms and at 2500 ms); a dropped
\* transcript leaves the retained one alone, an accepted one replaces it.
C9_DuplicateWindow ==
    [][last'.op = "onresult"
        => (/\ last'.fx.dropped
                <=> (/\ trim(last'.arg) = lastTranscript
                     /\ now - lastTranscriptTime < 2000)
            /\ (trim(last'.arg) = lastTranscript /\ now - lastTranscriptTime = 1500)
                    => last'.fx.dropped
            /\ (now - lastTranscriptTime \in {2000, 2500}) => ~last'.fx.dropped
            /\ trim(last'.arg) # lastTranscript => ~last'.fx.dropped
            /\ last'.fx.dropped
                    => UNCHANGED <<lastTranscript, lastTranscriptTime>>
            /\ ~last'.fx.dropped
                    => (lastTranscript' = trim(last'.arg)
                            /\ lastTranscriptTime' = now))]_vars

C9_Witness ==
    /\ last.op = "onresult"
    /\ last.fx.dropped
    /\ last.arg # lastTranscript
    /\ now - lastTranscriptTime = 1500

\* C10: a transcript dropped as a duplicate is not delivered and changes no phase;
\* from Listening, the capture end event then moves the phase to Idle.
C10_DroppedTranscriptIsInert ==
    /\ [][(last'.op = "onresult" /\ last'.fx.dropped)
            => (/\ last'.fx.delivered = 0
                /\ last'.fx.notified = <<>>
                /\ last'.fx.syn = <<>>
                /\ currentState' = currentState)]_vars
    /\ [][(last'.op = "recognition.onend" /\ currentState = "LISTENING")
            => currentState' = "IDLE"]_vars

C10_Witness ==
    /\ last.op = "onresult"
    /\ last.fx.dropped
    /\ currentState = "LISTENING"

\* C11: the duplicate filter drops a transcript only as a duplicate of the last
\* accepted transcript; one that arrived while the phase was not Listening, and
\* was never processed, does not make a later identical transcript be dropped.
C11_FilterComparesWithAccepted ==
    (last.op = "onresult" /\ last.fx.dropped /\ last.pre = "LISTENING")
        => retained # "ignored"

\* C12: in each turn the registered transcript callback is invoked at most once,
\* and exactly once when a transcript that the filter does not drop arrives while
\* the phase is Listening; when it is invoked, a successful validated transition
\* has already moved the phase from Listening to Processing.
C12_OneDeliveryPerTurn ==
    [][/\ last'.fx.delivered > 0
            => (/\ last'.op = "onresult"
                /\ last'.fx.delivered = 1
                /\ heard # "delivered"
                /\ last'.fx.phaseAtDelivery = <<"PROCESSING">>
                /\ Head(last'.fx.sm) = [call |-> "transition", from |-> "LISTENING",
                                        to |-> "PROCESSING", ok |-> TRUE])
       /\ (/\ last'.op = "onresult"
           /\ ~last'.fx.dropped
           /\ currentState = "LISTENING"
           /\ onTranscriptCallback # "none")
            => last'.fx.delivered = 1]_vars

C12_Witness ==
    /\ last.op = "onresult"
    /\ last.fx.delivered = 1
    /\ onTranscriptCallback = "other"
    /\ currentState = "PROCESSING"
    /\ heard = "delivered"

\* C13: when capture ends while the phase is Listening, the phase becomes Idle
\* through one validated transition; when capture ends while the phase is Idle,
\* Processing or Speaking, the phase is unchanged and no observer is notified.
C13_CaptureEnd ==
    last.op = "recognition.onend"
        => IF last.pre = "LISTENING"
           THEN /\ currentState = "IDLE"
                /\ last.fx.sm = <<[call |-> "transition", from |-> "LISTENING",
                                   to |-> "IDLE", ok |-> TRUE]>>
           ELSE /\ currentState = last.pre
                /\ last.fx.notified = <<>>
                /\ last.fx.sm = <<>>

C13_Witness ==
    /\ last.op = "recognition.onend"
    /\ last.pre = "LISTENING"
    /\ currentState = "IDLE"
    /\ last.fx.notified # <<>>

\* C14: a capture error of class no-speech that arrives while the phase is
\* Listening returns the phase to Idle and does not invoke the error callback.
C14_NoSpeechIsSilent ==
    (last.op = "recognition.onerror" /\ last.arg = "no-speech"
        /\ last.pre = "LISTENING")
        => (currentState = "IDLE" /\ last.fx.errs = 0)

C14_Witness ==
    /\ last.op = "recognition.onerror"
    /\ last.arg = "no-speech"
    /\ last.pre = "LISTENING"
    /\ currentState = "IDLE"
    /\ recState = "ending"

\* C15: a capture error of class not-allowed or audio-capture that arrives while
\* the phase is Listening invokes the error callback exactly once and leaves the
\* phase forced to Idle (one forceTransition from Listening to Idle).
C15_PermissionOrMicrophoneError ==
    (last.op = "recognition.onerror"
        /\ last.arg \in {"not-allowed", "audio-capture"}
        /\ last.pre = "LISTENING")
        => /\ last.fx.errs = 1
           /\ currentState = "IDLE"
           /\ last.fx.sm = <<[call |-> "forceTransition", from |-> "LISTENING",
                              to |-> "IDLE", ok |-> TRUE]>>

C15_Witness ==
    /\ last.op = "recognition.onerror"
    /\ last.arg = "not-allowed"
    /\ last.pre = "LISTENING"
    /\ last.fx.errs = 1
    /\ currentState = "IDLE"

\* C16: every capability failure other than no-speech (a capture error of class
\* audio-capture, not-allowed or any other class, and a rendering failure) invokes
\* the error callback exactly once and forces the phase to Idle.
C16_FailuresSurfacedOnce ==
    (\/ last.op = "recognition.onerror" /\ last.arg # "no-speech"
     \/ last.op = "utterance.onerror")
        => /\ last.fx.errs = 1
           /\ currentState = "IDLE"
           /\ \E k \in DOMAIN last.fx.sm : last.fx.sm[k].call = "forceTransition"

\* C17: observers can tell a forced transition from a validated one: what an
\* observer receives from forceTransition differs from everything an observer has
\* received from transition.
C17_ForcedNotificationDistinct ==
    last.op = "forceTransition"
        => \A i \in 1..Len(last.fx.notified) :
               last.fx.notified[i] \notin seenValidated

\* C18: a capability callback that arrives in a phase it does not expect is a
\* no-op: utterance.onend or utterance.onerror when the phase is not Speaking, and
\* recognition.onerror when the phase is not Listening, leave the phase unchanged
\* and notify no observer.
C18_CallbacksRevalidatePhase ==
    (\/ last.op \in {"utterance.onend", "utterance.onerror"} /\ last.pre # "SPEAKING"
     \/ last.op = "recognition.onerror" /\ last.pre # "LISTENING")
        => (currentState = last.pre /\ last.fx.notified = <<>>)

\* C19: after a forced reset and a new successful startListening, the completion
\* callback of an utterance queued in the earlier turn does not change the phase
\* of the new turn and delivers no transcript into it.
C19_StaleCompletionIsNoOp ==
    (last.op = "utterance.onend" /\ last.arg.stale)
        => (currentState = last.pre /\ last.fx.delivered = 0)

\* C20: a validation failure never forces a state change: in a step in which a
\* precondition of startListening or speak failed, or a transition was rejected,
\* no forceTransition is performed and no observer is notified.
C20_ValidationFailureNeverForces ==
    LET sm == last.fx.sm
        rejected == \E k \in DOMAIN sm : sm[k].call = "transition" /\ ~sm[k].ok
        failedStart == /\ last.op = "startListening"
                       /\ last.fx.ret = "false"
                       /\ (last.pre # "IDLE" \/ ~recognitionAvailable)
        failedSpeak == last.op = "speak" /\ last.fx.ret = "rejected"
    IN  (rejected \/ failedStart \/ failedSpeak)
            => /\ \A k \in DOMAIN sm : sm[k].call # "forceTransition"
               /\ last.fx.notified = <<>>

\* C21: reset() succeeds from every phase, whatever the transition table says:
\* afterwards the phase is Idle and every registered observer has been notified,
\* in registration order, with (previous phase, Idle).
C21_ResetFromEveryPhase ==
    last.op = "reset"
        => /\ currentState = "IDLE"
           /\ last.fx.notified =
                  [i \in 1..Len(listeners) |-> <<listeners[i], last.pre, "IDLE">>]

C21_Witness ==
    /\ last.op = "reset"
    /\ last.pre = "IDLE"
    /\ "IDLE" \notin TRANSITIONS[last.pre]
    /\ Len(listeners) = 2
    /\ Len(last.fx.notified) = 2
    /\ currentState = "IDLE"

\* The observer calls made for the k-th state-manager call of a handler, in order.
RECURSIVE Pick(_, _, _)
Pick(calls, owners, k) ==
    IF calls = <<>> THEN <<>>
    ELSE (IF Head(owners) = k THEN <<Head(calls)>> ELSE <<>>)
             \o Pick(Tail(calls), Tail(owners), k)

NotifiedOf(fx, k) == Pick(fx.notified, fx.nseq, k)

\* One call per registered listener, in registration order, with the same pair.
Expected(previousState, newState) ==
    [i \in 1..Len(listeners) |-> <<listeners[i], previousState, newState>>]

\* C22: if an observer throws during a notification, every registered observer is
\* still invoked for that transition, transition returns true, and the committed
\* phase is the new phase (unless an observer itself asked for another one).
C22_ThrowingObserver ==
    (/\ last.op = "transition"
     /\ \E i \in 1..Len(listeners) : listeners[i] = "thrower"
     /\ last.fx.sm[1].ok)
        => /\ last.fx.ret = "true"
           /\ NotifiedOf(last.fx, 1) = Expected(last.pre, last.arg)
           /\ Len(last.fx.sm) = 1 => currentState = last.arg

C22_Witness ==
    /\ last.op = "transition"
    /\ listeners = <<"thrower", "ui">>
    /\ last.fx.caught = 1
    /\ last.fx.ret = "true"
    /\ last.fx.notified = <<<<"thrower", "IDLE", "LISTENING">>,
                            <<"ui", "IDLE", "LISTENING">>>>
    /\ currentState = "LISTENING"

\* C23: for each committed transition the observers are invoked before
\* transition / forceTransition returns, in the order in which they were
\* registered, each with the same (previous, new) pair; a rejected call invokes none.
C23_SynchronousInOrder ==
    last.op \in {"transition", "forceTransition", "reset"}
        => \A k \in DOMAIN last.fx.sm :
               NotifiedOf(last.fx, k) =
                   IF last.fx.sm[k].ok
                   THEN Expected(last.fx.sm[k].from, last.fx.sm[k].to)
                   ELSE <<>>

C23_Witness ==
    /\ last.op = "forceTransition"
    /\ listeners = <<"ui", "thrower", "ui">>
    /\ last.fx.ret = "undefined"
    /\ last.fx.notified = <<<<"ui", "SPEAKING", "LISTENING">>,
                            <<"thrower", "SPEAKING", "LISTENING">>,
                            <<"ui", "SPEAKING", "LISTENING">>>>

\* C24: notifications of different transitions never interleave: within a handler
\* every observer call for an earlier state-manager call comes before every
\* observer call for a later one, also when an observer calls reset from inside
\* its notification.
C24_NotificationsDoNotInterleave ==
    \A i, j \in 1..Len(last.fx.nseq) :
        i < j => last.fx.nseq[i] <= last.fx.nseq[j]

\* How many times cb occurs in a list of listeners / in a list of observer calls.
Count(ls, cb) == Cardinality({i \in 1..Len(ls) : ls[i] = cb})

Runs(calls, cb) == Cardinality({i \in 1..Len(calls) : calls[i][1] = cb})

\* C25: a callback registered twice runs twice per committed transition (each
\* addListener of a function adds one run, and a callback runs once per occurrence);
\* removeListener(callback) removes every occurrence of it and nothing else, and
\* removing a callback that is not registered changes nothing.
C25_AddTwiceRemoveAll ==
    [][/\ (last'.op = "addListener" /\ last'.arg \in Callbacks)
            => \A cb \in Callbacks :
                   Count(listeners', cb) =
                       Count(listeners, cb) + (IF cb = last'.arg THEN 1 ELSE 0)
       /\ last'.op = "removeListener"
            => /\ Count(listeners', last'.arg) = 0
               /\ listeners' = SelectSeq(listeners, LAMBDA cb : cb # last'.arg)
               /\ Count(listeners, last'.arg) = 0 => listeners' = listeners
       /\ last'.op \in {"transition", "forceTransition", "reset"}
            => \A k \in DOMAIN last'.fx.sm : \A cb \in Callbacks :
                   Runs(NotifiedOf(last'.fx, k), cb) =
                       IF last'.fx.sm[k].ok THEN Count(listeners, cb) ELSE 0]_vars

C25_Witness ==
    /\ last.op = "transition"
    /\ listeners = <<"ui", "ui">>
    /\ last.fx.ret = "true"
    /\ Runs(last.fx.notified, "ui") = 2

\* C26: each speak whose rendering was invoked settles its promise once: on render
\* completion the phase moves Speaking->Idle by a validated transition and the
\* promise resolves; on render failure the phase is forced to Idle and the promise
\* rejects; in both cases the phase is Idle when the promise settles.
C26_SpeakSettles ==
    /\ last.op = "utterance.onend"
        => /\ last.fx.settled = "resolved"
           /\ last.fx.sm = <<[call |-> "transition", from |-> "SPEAKING",
                              to |-> "IDLE", ok |-> TRUE]>>
           /\ currentState = "IDLE"
    /\ last.op = "utterance.onerror"
        => /\ last.fx.settled = "rejected"
           /\ last.fx.sm # <<>>
           /\ \A k \in DOMAIN last.fx.sm :
                  last.fx.sm[k].call = "forceTransition" /\ last.fx.sm[k].to = "IDLE"
           /\ currentState = "IDLE"

\* C27: stopListening never changes the phase itself: while Listening it only asks
\* capture to stop (the capture has not ended when it returns, and the phase is
\* still Listening); in Idle, Processing or Speaking it does nothing at all; so a
\* repeated call is harmless.
C27_StopListeningKeepsPhase ==
    last.op = "stopListening"
        => /\ currentState = last.pre
           /\ last.fx.notified = <<>>
           /\ last.fx.sm = <<>>
           /\ last.fx.errs = 0 /\ last.fx.delivered = 0 /\ last.fx.syn = <<>>
           /\ IF last.pre = "LISTENING"
              THEN last.fx.cap = <<"stop">> /\ recState = "stopping"
              ELSE last.fx.cap = <<>>

C27_Witness ==
    /\ last.op = "stopListening"
    /\ last.pre = "LISTENING"
    /\ currentState = "LISTENING"
    /\ last.fx.cap = <<"stop">>
    /\ recState = "stopping"

\* C28: cancelSpeech never changes the phase itself: it at most requests the
\* cancellation of the rendering in flight, and with no rendering in flight it does
\* nothing, raises no error and causes no phase change.
C28_CancelSpeechKeepsPhase ==
    last.op = "cancelSpeech"
        => /\ currentState = last.pre
           /\ last.fx.notified = <<>>
           /\ last.fx.sm = <<>>
           /\ last.fx.ret # "throw"
           /\ utterances = <<>> => last.fx.syn = <<>>

\* C29: setRecognitionLanguage and setSynthesisLanguage change only the stored
\* locale: they change no phase, notify no observer and start or stop no
\* capability; the capture and the utterances in flight keep the locale they were
\* started with; the next successful startListening captures with the most
\* recently set recognition locale and the next speak renders with the most
\* recently set synthesis locale.
C29_LocaleSetters ==
    [][/\ last'.op \in {"setRecognitionLanguage", "setSynthesisLanguage"}
            => /\ currentState' = currentState
               /\ recState' = recState
               /\ captureLang' = captureLang
               /\ utterances' = utterances
               /\ lastTranscript' = lastTranscript
               /\ last'.fx = NoFx
       /\ last'.op = "setRecognitionLanguage"
            => recognitionLang' = last'.arg /\ synthesisLang' = synthesisLang
       /\ last'.op = "setSynthesisLanguage"
            => synthesisLang' = last'.arg /\ recognitionLang' = recognitionLang
       /\ (last'.op = "startListening" /\ last'.fx.ret = "true")
            => captureLang' = recognitionLang
       /\ (recState # "inactive" /\ recState' # "inactive")
            => captureLang' = captureLang
       /\ Called(last'.fx.syn, "speak")
            => utterances'[Len(utterances')].lang = synthesisLang]_vars

C29_Witness ==
    /\ last.op = "setRecognitionLanguage"
    /\ last.arg = "de-DE"
    /\ recState = "active"
    /\ captureLang = "es-ES"
    /\ recognitionLang = "de-DE"
    /\ recognition_lang = "de-DE"

\* C30: startListening invoked in Idle while capture is unavailable returns
\* failure without side effects: the phase stays Idle, no observer is notified,
\* capture is not invoked and no callback is invoked.
C30_CaptureUnavailableNoSideEffects ==
    (last.op = "startListening" /\ last.pre = "IDLE" /\ ~recognitionAvailable)
        => /\ last.fx.ret = "false"
           /\ currentState = "IDLE"
           /\ last.fx.notified = <<>>
           /\ last.fx.cap = <<>>
           /\ last.fx.errs = 0
           /\ last.fx.delivered = 0

\* C31: no committed phase change is a self-transition: every observer
\* notification (previous, new), from transition or from forceTransition / reset,
\* has previous different from new.
C31_NoSelfTransition ==
    \A i \in 1..Len(last.fx.notified) :
        last.fx.notified[i][2] # last.fx.notified[i][3]

\* C32: every committed transition, validated or forced, is recorded with a
\* sequence number strictly greater than that of the transition committed before
\* it (the number recorded with a transition being the one its log line carries).
C32_SequenceNumbersIncrease ==
    \A i, j \in DOMAIN last.fx.sm :
        (i < j /\ last.fx.sm[i].ok /\ last.fx.sm[j].ok)
            => last.fx.log[i] < last.fx.log[j]

\* C33: recognition does not auto-restart: recognition.start() is called only
\* inside a startListening call, so a capture that is inactive becomes active in
\* a successful startListening and in no capture, rendering or state-machine
\* callback.
C33_NoAutoRestart ==
    [][/\ (Called(last'.fx.cap, "start") \/ Called(last'.fx.cap, "startThrew"))
            => last'.op = "startListening"
       /\ (recState = "inactive" /\ recState' # "inactive")
            => (last'.op = "startListening" /\ last'.fx.ret = "true")]_vars

C33_Witness ==
    /\ last.op = "recognition.onend"
    /\ last.pre = "LISTENING"
    /\ currentState = "IDLE"
    /\ recState = "inactive"
    /\ last.fx.cap = <<>>

\* C34: microphone input is ignored outside Listening: a transcript event that
\* arrives while the phase is Idle, Processing or Speaking is not delivered to the
\* transcript callback, changes no phase and notifies no observer.
C34_TranscriptIgnoredOutsideListening ==
    (last.op = "onresult" /\ last.pre # "LISTENING")
        => /\ last.fx.delivered = 0
           /\ currentState = last.pre
           /\ last.fx.notified = <<>>
           /\ last.fx.sm = <<>>
           /\ last.fx.syn = <<>>

C34_Witness ==
    /\ last.op = "onresult"
    /\ last.pre = "SPEAKING"
    /\ ~last.fx.dropped
    /\ onTranscriptCallback = "app"
    /\ last.fx.delivered = 0
    /\ currentState = "SPEAKING"

\* C35: switchLesson with a known lesson key, invoked while the phase is Idle and
\* rendering is available, speaks the lesson intro: the rendering capability is
\* invoked and the phase passes through Speaking.
C35_SwitchLessonSpeaksIntro ==
    (/\ last.op = "switchLesson"
     /\ last.arg = "known"
     /\ last.pre = "IDLE"
     /\ synthesisAvailable)
        => /\ Called(last.fx.syn, "speak")
           /\ \E i \in 1..Len(last.fx.notified) : last.fx.notified[i][3] = "SPEAKING"

\* C37: the phase tracks the capabilities: rendering is active only while the
\* phase is Speaking, and capture is active only while the phase is Listening or,
\* after a transcript was accepted, Processing or Speaking until the stop requested
\* by speak takes effect; the phase is never Idle while rendering is active.
C37_PhaseTracksCapabilities ==
    /\ RenderingActive => currentState = "SPEAKING"
    /\ CaptureActive => currentState \in {"LISTENING", "PROCESSING", "SPEAKING"}

\* C38: when the capture capability throws as startListening starts it,
\* startListening returns false with the phase Idle, the observers have seen
\* (Idle, Listening) then (Listening, Idle), and the call starts no capture.
C38_StartFailureRollsBack ==
    [][(last'.op = "startListening" /\ Called(last'.fx.cap, "startThrew"))
        => (/\ last'.fx.ret = "false"
            /\ currentState' = "IDLE"
            /\ last'.fx.notified = <<<<"ui", "IDLE", "LISTENING">>,
                                     <<"ui", "LISTENING", "IDLE">>>>
            /\ ~Called(last'.fx.cap, "start")
            /\ recState' = recState
            /\ captureLang' = captureLang)]_vars

C38_Witness ==
    /\ last.op = "startListening"
    /\ last.pre = "IDLE"
    /\ Called(last.fx.cap, "startThrew")
    /\ last.fx.ret = "false"
    /\ currentState = "IDLE"
    /\ Len(last.fx.notified) = 2

\* C39: the current phase is always one of Idle, Listening, Processing, Speaking
\* after any sequence of transition and forceTransition calls with arbitrary
\* names, inherited object property names included; forceTransition with such a
\* name leaves the phase unchanged and notifies no observer.
C39_PhaseAlwaysAPhase ==
    /\ currentState \in STATES
    /\ (last.op = "forceTransition" /\ last.arg \notin STATES)
            => (currentState = last.pre /\ last.fx.notified = <<>>)

\* C40: a dropped duplicate does not refresh the debounce window: the window is
\* measured from the time the transcript was retained, so an identical transcript
\* 2000 ms or more after that time is accepted however recently a duplicate was
\* dropped (retained at 0, dropped at 1.5 s, accepted at 2.5 s).
C40_DropKeepsWindow ==
    [][last'.op = "onresult"
        => (/\ last'.fx.dropped => lastTranscriptTime' = lastTranscriptTime
            /\ (/\ trim(last'.arg) = lastTranscript
                /\ droppedAt > lastTranscriptTime
                /\ now - lastTranscriptTime >= DebounceMs)
                    => (~last'.fx.dropped /\ lastTranscriptTime' = now))]_vars

C40_Witness ==
    /\ last.op = "onresult"
    /\ ~last.fx.dropped
    /\ trim(last.arg) = lastTranscript
    /\ lastTranscriptTime = now
    /\ now - droppedAt = 2 * TickMs
    /\ now = Epoch + 5 * TickMs

\* C36: every turn ends: whenever the phase is Listening, Processing or Speaking
\* it eventually becomes Idle again, given that every started capture eventually
\* ends and every submitted utterance eventually completes or fails; this includes
\* sessions with no transcript callback, with a callback that never calls speak,
\* and without the rendering capability.
C36_EveryTurnEnds ==
    (currentState \in {"LISTENING", "PROCESSING", "SPEAKING"})
        ~> (currentState = "IDLE")

=============================================================================
